---- MODULE Spec2Model ----
(***************************************************************************)
(* Titan Depot indexing agent: Shopify webhook -> search-engine submission *)
(* pipeline, and the daily heartbeat job.                                  *)
(*                                                                         *)
(* The repository holds three variants of the same pipeline:               *)
(*   "indexnow" : src/index.js lines 1-157                                 *)
(*   "legacy"   : src/index.js lines 159-299                               *)
(*   "bing"     : src/unnamed/part_000                                     *)
(* The deployed variant and the environment are fixed at process start.    *)
(*                                                                         *)
(* Every `await` of the handlers, the daily job and the submit functions   *)
(* is a suspension: the code after it runs in a later step, also when the  *)
(* awaited promise is already settled.                                     *)
(*                                                                         *)
(* JavaScript values: strings are TLA+ strings; `undefined` and `null` are *)
(* the sentinels Undefined and Null.  A call result is a record            *)
(* [throws, value, error]: `throws` tells whether the call raised.         *)
(***************************************************************************)
EXTENDS Integers, Sequences, FiniteSets, TLC

VARIABLES variant, env, ev, hb, alive, call

vars == <<variant, env, ev, hb, alive, call>>

(* ------------------------------ bounds -------------------------------- *)

\* number of heartbeat firings explored
MaxFirings == 2

\* number of webhook requests that may be in flight at once
MaxInFlight == 2

(* --------------------------- JavaScript values ------------------------ *)

Undefined == "#undefined"

Null == "#null"

Variants == {"indexnow", "legacy", "bing"}

\* JS truthiness of a string-or-undefined-or-null value
Truthy(v) == v # Undefined /\ v # Null /\ v # ""

\* template-literal conversion `${v}`
ToStr(v) == IF v = Undefined THEN "undefined" ELSE IF v = Null THEN "null" ELSE v

Return(v) == [throws |-> FALSE, value |-> v, error |-> "none"]

Throw(v, name) == [throws |-> TRUE, value |-> v, error |-> name]

\* String.prototype.startsWith
startsWith(s, p) == Len(s) >= Len(p) /\ SubSeq(s, 1, Len(p)) = p

\* String.prototype.endsWith
endsWith(s, p) == Len(s) >= Len(p) /\ SubSeq(s, Len(s) - Len(p) + 1, Len(s)) = p

(* ------------------------- signature verifier ------------------------- *)

\* byte length of the base64 encoding of a SHA-256 digest
DigestLen == 44

\* crypto.createHmac("sha256", key).update(body).digest("base64"): the digest
\* is an abstract collision-free value of the key and the exact body, of
\* DigestLen bytes.
createHmacDigest(key, body) == [len |-> DigestLen, mac |-> <<key, body>>]

\* crypto.timingSafeEqual(Buffer.from(a), Buffer.from(b)): RangeError when the
\* byte lengths differ, otherwise equality of the contents.
timingSafeEqual(a, b) ==
    IF a.len # b.len THEN Throw(FALSE, "RangeError") ELSE Return(a.mac = b.mac)

\* req.get("x-shopify-hmac-sha256") when the header is absent (or empty)
NoHeader == [len |-> 0, mac |-> <<Undefined, Undefined>>]

\* !hmac
HeaderAbsent(h) == h = NoHeader

\* src/index.js verifyShopifyHmac (both copies)
verifyShopifyHmac_index(secret, body, hmac) ==
    IF HeaderAbsent(hmac) THEN Return(FALSE)
    ELSE IF secret = Undefined THEN Throw(FALSE, "TypeError")
    ELSE timingSafeEqual(createHmacDigest(secret, body), hmac)

\* src/unnamed/part_000 verifyShopifyHmac
verifyShopifyHmac_bing(secret, body, hmac) ==
    IF HeaderAbsent(hmac) \/ ~Truthy(secret) THEN Return(FALSE)
    ELSE LET r == timingSafeEqual(createHmacDigest(secret, body), hmac)
         IN  IF r.throws THEN Return(FALSE) ELSE r

verifyShopifyHmac(v, secret, body, hmac) ==
    IF v = "bing" THEN verifyShopifyHmac_bing(secret, body, hmac)
    ELSE verifyShopifyHmac_index(secret, body, hmac)

(* ----------------------------- URL resolver --------------------------- *)

getHostBase == "https://titandepot.co.uk"

\* A parsed payload: type is "object", "null" or "number"; handle is the
\* value of payload.handle, blogHandle the value of payload.blog?.handle
\* (Undefined when the property is absent).
Payload(t, h, b) == [type |-> t, handle |-> h, blogHandle |-> b]

\* payload?.handle
OptHandle(p) == IF p.type = "object" THEN p.handle ELSE Undefined

\* variant of OptBlogHandle that never finds the nested blog handle
OptBlogHandle_ignored(p) == Undefined

\* payload?.blog?.handle
OptBlogHandle(p) == IF p.type = "object" THEN p.blogHandle ELSE Undefined

\* src/index.js 41-58 and src/unnamed/part_000 56-77
buildPublicUrl_guarded(topic, payload) ==
    LET host == getHostBase
        isDelete == endsWith(topic, "delete")
        handle == OptHandle(payload)
    IN  IF startsWith(topic, "products/") THEN
            IF isDelete THEN Return(Null)
            ELSE IF Truthy(handle)
                 THEN Return(host \o "/products/" \o ToStr(handle))
                 ELSE Return(Null)
        ELSE IF startsWith(topic, "collections/") THEN
            IF isDelete THEN Return(Null)
            ELSE IF Truthy(handle)
                 THEN Return(host \o "/collections/" \o ToStr(handle))
                 ELSE Return(Null)
        ELSE IF startsWith(topic, "articles/") THEN
            IF isDelete THEN Return(Null)
            ELSE LET bh == OptBlogHandle(payload)
                     blogHandle == IF Truthy(bh) THEN bh ELSE "news"
                 IN  IF Truthy(handle)
                     THEN Return(host \o "/blogs/" \o blogHandle \o "/" \o ToStr(handle))
                     ELSE Return(Null)
        ELSE Return(Null)

\* src/index.js 199-208: property access on null raises a TypeError
buildPublicUrl_legacy(topic, payload) ==
    LET host == getHostBase
        handle == OptHandle(payload)
    IN  IF startsWith(topic, "products/") THEN
            IF payload.type = "null" THEN Throw(Null, "TypeError")
            ELSE Return(host \o "/products/" \o ToStr(handle))
        ELSE IF startsWith(topic, "collections/") THEN
            IF payload.type = "null" THEN Throw(Null, "TypeError")
            ELSE Return(host \o "/collections/" \o ToStr(handle))
        ELSE IF startsWith(topic, "articles/") THEN
            IF payload.type = "null" THEN Throw(Null, "TypeError")
            ELSE LET bh == OptBlogHandle(payload)
                     blogHandle == IF Truthy(bh) THEN bh ELSE "news"
                 IN  Return(host \o "/blogs/" \o blogHandle \o "/" \o ToStr(handle))
        ELSE Return(Null)

buildPublicUrl(v, topic, payload) ==
    IF v = "legacy" THEN buildPublicUrl_legacy(topic, payload)
    ELSE buildPublicUrl_guarded(topic, payload)

(* ------------------------------ JSON.parse ---------------------------- *)

BodyWidget == "{\"handle\":\"widget\"}"

BodyArticle == "{\"handle\":\"a\",\"blog\":{\"handle\":\"b\"}}"

BodyAll == "{\"handle\":\"all\"}"

BodyEmptyHandle == "{\"handle\":\"\"}"

BodyEmptyObject == "{}"

BodyNull == "null"

BodyNumber == "5"

BodyBroken == "{\"handle\":"

NoPayload == Payload("null", Undefined, Undefined)

\* variant of JSONparse that yields an empty object for unparseable text
JSONparse_lenient(body) ==
    CASE body = BodyWidget -> Return(Payload("object", "widget", Undefined))
      [] body = BodyArticle -> Return(Payload("object", "a", "b"))
      [] body = BodyAll -> Return(Payload("object", "all", Undefined))
      [] body = BodyEmptyHandle -> Return(Payload("object", "", Undefined))
      [] body = BodyNull -> Return(Payload("null", Undefined, Undefined))
      [] body = BodyNumber -> Return(Payload("number", Undefined, Undefined))
      [] OTHER -> Return(Payload("object", Undefined, Undefined))

\* JSON.parse(req.body.toString("utf8")) on the request bodies explored
JSONparse(body) ==
    CASE body = BodyWidget -> Return(Payload("object", "widget", Undefined))
      [] body = BodyArticle -> Return(Payload("object", "a", "b"))
      [] body = BodyAll -> Return(Payload("object", "all", Undefined))
      [] body = BodyEmptyHandle -> Return(Payload("object", "", Undefined))
      [] body = BodyEmptyObject -> Return(Payload("object", Undefined, Undefined))
      [] body = BodyNull -> Return(Payload("null", Undefined, Undefined))
      [] body = BodyNumber -> Return(Payload("number", Undefined, Undefined))
      [] OTHER -> Throw(NoPayload, "SyntaxError")

(* --------------------------- provider submitters ---------------------- *)

\* res.ok of a fetch outcome; "reject" is a transport failure (fetch rejects)
FetchOutcomes == {"2xx", "non2xx", "reject"}

\* await res.text(): the body is read, or the read rejects
BodyOutcomes == {"read", "fail"}

\* outcome of one awaited Google call: jwt.authorize(), sitemaps.submit()
GscOutcomes == {"ok", "fail"}

\* variant of submitStart in which every variant skips without an API key
submitStart_skipAlways(v, apiKey) ==
    IF ~Truthy(apiKey) THEN "skip" ELSE "pending"

\* submitIndexNow / submitToBing up to the first await:
\* "pending" = request sent, "skip" = returned without sending
submitStart(v, apiKey) ==
    IF v = "bing" /\ ~Truthy(apiKey) THEN "skip" ELSE "pending"

\* whether the submitter awaits res.text() for a response with outcome r
readsBody(v, r) == v # "legacy" \/ r = "non2xx"

\* submitIndexNow / submitToBing after the body was read: if (!res.ok) throw
submitFinish(r) == IF r = "2xx" THEN "ok" ELSE "fail"

\* the service-account credential texts explored: a key file, the text
\* "null", a text that is not JSON, and the empty string
CredentialKey == "{\"client_email\":\"x\",\"private_key\":\"k\"}"

CredentialNull == "null"

CredentialBroken == "not json"

CredentialEmpty == ""

\* JSON.parse(GOOGLE_CREDENTIALS_JSON): the kind of value parsed, or a
\* SyntaxError (undefined is converted to the text "undefined")
parseCredentials(credential) ==
    CASE credential = CredentialKey -> Return("object")
      [] credential = CredentialNull -> Return("null")
      [] OTHER -> Throw("none", "SyntaxError")

\* the statements of submitSitemapToGSC between the credential check and
\* the first await: "fail" = JSON.parse raised, or creds is null and reading
\* its property raised a TypeError; "pending" = authorization started
gscPrepare(credential) ==
    LET creds == parseCredentials(credential)
    IN  IF creds.throws \/ creds.value = "null" THEN "fail" ELSE "pending"

\* submitSitemapToGSC up to the first await: "skip" = returned with a warning,
\* "fail" = raised before any provider call, "pending" = authorization started
gscStart(v, credential) ==
    IF v # "legacy" /\ ~Truthy(credential) THEN "skip"
    ELSE gscPrepare(credential)

\* the caller x calls the instant-submit function and awaits its promise: the
\* fetch is in flight, or the promise is already resolved (skipped)
submitCall(v, apiKey, x) ==
    LET c == [x EXCEPT !.primaryCalls = @ + 1]
    IN  IF submitStart(v, apiKey) = "pending"
        THEN [c EXCEPT !.pc = "Primary", !.primary = "pending"]
        ELSE [c EXCEPT !.pc = "PrimarySettled", !.primary = "skip"]

\* the instant-submit function resumed after `await fetch(...)` settled with r
afterFetch(v, x, r) ==
    IF r = "reject" THEN [x EXCEPT !.pc = "PrimarySettled", !.primary = "fail"]
    ELSE IF readsBody(v, r) THEN [x EXCEPT !.pc = "PrimaryBody", !.res = r]
    ELSE [x EXCEPT !.pc = "PrimarySettled", !.primary = "ok"]

\* the instant-submit function resumed after `await res.text()` settled with b
afterBody(x, b) ==
    [x EXCEPT !.pc = "PrimarySettled", !.res = "none",
              !.primary = IF b = "fail" THEN "fail" ELSE submitFinish(x.res)]

\* the caller x calls submitSitemapToGSC() and awaits its promise: the
\* authorization is in flight, or the promise is already settled
gscCall(v, credential, x) ==
    LET g == gscStart(v, credential)
        c == [x EXCEPT !.gscCalls = @ + 1]
    IN  IF g = "pending" THEN [c EXCEPT !.pc = "Secondary", !.gsc = "pending"]
        ELSE [c EXCEPT !.pc = "SecondarySettled", !.gsc = g]

\* submitSitemapToGSC resumed after `await jwt.authorize()` settled with o
afterAuthorize(x, o) ==
    IF o = "ok" THEN [x EXCEPT !.pc = "SecondarySubmit"]
    ELSE [x EXCEPT !.pc = "SecondarySettled", !.gsc = "fail"]

\* submitSitemapToGSC resumed after `await webmasters.sitemaps.submit(...)`
\* settled with o
afterSubmit(x, o) == [x EXCEPT !.pc = "SecondarySettled", !.gsc = o]

(* ------------------------- submission orchestrator -------------------- *)

RootUrl == getHostBase \o "/"

AllUrl == getHostBase \o "/collections/all"

SitemapUrl == getHostBase \o "/sitemap.xml"

\* variant of buildUrls that pushes the resolved URL last and forgets the
\* "all items" listing when a URL was resolved
buildUrls_resolvedOnly(url) ==
    IF Truthy(url) THEN <<RootUrl, url>> ELSE <<RootUrl, AllUrl>>

\* const urls = []; if (url) urls.push(url); urls.push(root); urls.push(all)
buildUrls(url) ==
    (IF Truthy(url) THEN <<url>> ELSE <<>>) \o <<RootUrl, AllUrl>>

\* variant of needsSitemap that tests the resource kind for creations only
needsSitemap_createOnly(topic) == endsWith(topic, "create")

\* topic.endsWith("create") || topic.startsWith("collections/")
needsSitemap(topic) == endsWith(topic, "create") \/ startsWith(topic, "collections/")

IdleEv ==
    [pc |-> "Idle", topic |-> "", body |-> "", hmac |-> NoHeader,
     verify |-> "none", parsed |-> FALSE, resolved |-> FALSE, url |-> Null,
     urls |-> <<>>, primary |-> "none", res |-> "none", gsc |-> "none",
     primaryCalls |-> 0, gscCalls |-> 0,
     status |-> 0, responses |-> 0]

\* res.status(code).send(...)
Respond(e, code) ==
    [e EXCEPT !.pc = "Responded", !.status = code, !.responses = @ + 1]

\* the handler after the primary call returned normally: conditional
\* `await submitSitemapToGSC()`, or the 200 response at once
secondaryStep(v, environ, e) ==
    IF needsSitemap(e.topic) THEN gscCall(v, environ.credential, e)
    ELSE Respond(e, 200)

\* variant of primaryStep that starts both provider calls at once
primaryStep_parallel(v, environ, e) ==
    LET c == submitCall(v, environ.apiKey, e)
    IN  IF c.pc = "Primary" /\ needsSitemap(e.topic)
           /\ gscStart(v, environ.credential) = "pending"
        THEN [c EXCEPT !.gsc = "pending", !.gscCalls = @ + 1]
        ELSE c

\* await submitIndexNow(urls) / await submitToBing(urls): the handler is
\* suspended on the promise of the call
primaryStep(v, environ, e) == submitCall(v, environ.apiKey, e)

\* the handler from its entry up to its first suspension or response
handleRequest(v, environ, e) ==
    LET ver == verifyShopifyHmac(v, environ.secret, e.body, e.hmac)
    IN  IF ver.throws THEN Respond([e EXCEPT !.verify = "throws"], 500)
        ELSE IF ~ver.value THEN Respond([e EXCEPT !.verify = "false"], 401)
        ELSE
        LET e1 == [e EXCEPT !.verify = "true"]
            parsedBody == JSONparse(e.body)
        IN  IF parsedBody.throws THEN Respond(e1, 500)
            ELSE
            LET e2 == [e1 EXCEPT !.parsed = TRUE, !.resolved = TRUE]
                built == buildPublicUrl(v, e.topic, parsedBody.value)
            IN  IF built.throws THEN Respond(e2, 500)
                ELSE
                LET e3 == [e2 EXCEPT !.url = built.value,
                                     !.urls = buildUrls(built.value)]
                IN  primaryStep(v, environ, e3)

\* variant of afterPrimary that treats a failed primary call as advisory
afterPrimary_advisory(v, environ, e) == secondaryStep(v, environ, e)

\* variant of afterPrimary that submits a failed batch a second time
afterPrimary_retry(v, environ, e) ==
    IF e.primary \in {"ok", "skip"} THEN secondaryStep(v, environ, e)
    ELSE IF e.primaryCalls < 2 THEN submitCall(v, environ.apiKey, e)
    ELSE Respond(e, 500)

\* variant of afterPrimary that answers 500 without leaving the handler
afterPrimary_noReturn(v, environ, e) ==
    IF e.primary \in {"ok", "skip"} THEN secondaryStep(v, environ, e)
    ELSE Respond(Respond(e, 500), 200)

\* the handler resumed after the promise of the primary call settled: it goes
\* on to the secondary step, or to the catch block and the 500 response
afterPrimary(v, environ, e) ==
    IF e.primary \in {"ok", "skip"} THEN secondaryStep(v, environ, e)
    ELSE Respond(e, 500)

\* the handler resumed after the promise of submitSitemapToGSC() settled
afterSecondary(v, e) ==
    IF e.gsc \in {"ok", "skip"} \/ v = "bing" THEN Respond(e, 200)
    ELSE Respond(e, 500)

(* --------------------------- heartbeat scheduler ---------------------- *)

\* the firings started so far, oldest first; onTick has no re-entrancy check,
\* so a firing may start while an earlier one is still pending
NoJobs == <<>>

NewJob ==
    [pc |-> "Start", urls |-> <<>>, primary |-> "none", res |-> "none",
     gsc |-> "none", primaryCalls |-> 0, gscCalls |-> 0,
     failed |-> FALSE, threw |-> FALSE]

\* log.info("Daily health submit complete"): the firing ends normally
cronComplete(h) == [h EXCEPT !.pc = "Done"]

\* variant of cronCatch that logs and rethrows
cronCatch_rethrow(h) == [h EXCEPT !.pc = "Done", !.failed = TRUE, !.threw = TRUE]

\* catch (e) { log.error(e, "Daily job failed") }: the firing ends, logged
cronCatch(h) == [h EXCEPT !.pc = "Done", !.failed = TRUE]

\* await submitSitemapToGSC() of the daily job
cronSecondaryStep(v, environ, h) == gscCall(v, environ.credential, h)

\* the daily job from its start up to its first suspension
cronFire(v, environ) ==
    submitCall(v, environ.apiKey, [NewJob EXCEPT !.urls = <<RootUrl, SitemapUrl>>])

\* variant of cronAfterPrimary with the two calls in separate try blocks
cronAfterPrimary_separate(v, environ, h) ==
    IF h.primary \in {"ok", "skip"} THEN cronSecondaryStep(v, environ, h)
    ELSE cronSecondaryStep(v, environ, [h EXCEPT !.failed = TRUE])

\* the daily job resumed after the promise of the instant-submit call settled
cronAfterPrimary(v, environ, h) ==
    IF h.primary \in {"ok", "skip"} THEN cronSecondaryStep(v, environ, h)
    ELSE cronCatch(h)

\* the daily job resumed after the promise of submitSitemapToGSC() settled
cronAfterSecondary(h) ==
    IF h.gsc \in {"ok", "skip"} THEN cronComplete(h) ELSE cronCatch(h)

\* process.on("unhandledRejection", ...) is installed
hasRejectionHandler(v) == v = "bing"

\* a rejection escaping the daily job ends the process unless it is handled
aliveAfter(v, jobs) ==
    (\A j \in DOMAIN jobs : ~jobs[j].threw) \/ hasRejectionHandler(v)

(* ------------------------------- inputs ------------------------------- *)

\* the secret the event source signs with
SenderSecret == "shpss_0123"

Secrets == {Undefined, SenderSecret}

ApiKeys == {Undefined, "apikey"}

Credentials ==
    {Undefined, CredentialEmpty, CredentialBroken, CredentialNull, CredentialKey}

Environments == [secret : Secrets, apiKey : ApiKeys, credential : Credentials]

Topics ==
    {"products/create", "products/update", "products/delete",
     "collections/create", "collections/update", "collections/delete",
     "articles/create", "unknown/create", "unknown/update", ""}

Bodies ==
    {BodyWidget, BodyArticle, BodyAll, BodyEmptyObject, BodyNull, BodyNumber,
     BodyBroken}

\* signature headers a request for `body` may carry: none, the sender's
\* signature, a signature under another key, one of another body, and a
\* truncated one
Headers(body) ==
    {NoHeader,
     createHmacDigest(SenderSecret, body),
     createHmacDigest("other", body),
     createHmacDigest(SenderSecret, body \o " "),
     [len |-> DigestLen - 1, mac |-> <<SenderSecret, body>>]}

\* the topics with which every body is explored: one that asks for the
\* sitemap resubmission and one that does not
CoreTopics == {"products/update", "collections/create"}

\* the requests explored: every topic with the product body and every body
\* with the core topics under the sender's signature, and every header with
\* every body for one topic
RequestInputs ==
    {<<topic, body, createHmacDigest(SenderSecret, body)>> :
        topic \in Topics, body \in {BodyWidget}}
    \cup {<<topic, body, createHmacDigest(SenderSecret, body)>> :
        topic \in CoreTopics, body \in Bodies}
    \cup UNION {{<<"products/update", body, hmac>> : hmac \in Headers(body)} :
                  body \in Bodies}

NoCall ==
    [fn |-> "none", topic |-> "", body |-> "", hmac |-> NoHeader,
     payload |-> NoPayload, done |-> FALSE, result |-> Return(Null)]

(* ------------------------------- actions ------------------------------ *)

Requests == DOMAIN ev

Firings == DOMAIN hb

\* the pcs at which a provider call of a handler or a firing is unfinished
InFlight ==
    {"Primary", "PrimaryBody", "PrimarySettled",
     "Secondary", "SecondarySubmit", "SecondarySettled"}

Init ==
    /\ variant \in Variants
    /\ env \in Environments
    /\ ev = <<IdleEv>>
    /\ hb = NoJobs
    /\ alive = TRUE
    /\ call = NoCall

\* express delivers a POST /webhooks/shopify request with its raw body
Receive(e) ==
    /\ alive
    /\ ev[e].pc = "Idle"
    /\ \E in \in RequestInputs :
            ev' = [ev EXCEPT ![e] = [IdleEv EXCEPT !.pc = "Received",
                                       !.topic = in[1], !.body = in[2],
                                       !.hmac = in[3]]]
    /\ UNCHANGED <<variant, env, hb, alive, call>>

\* variant of Handle whose urls array lives at module scope, so that it still
\* holds the batch of a request that is in flight
Handle_sharedUrls(e) ==
    /\ alive
    /\ ev[e].pc = "Received"
    /\ LET r == handleRequest(variant, env, ev[e])
           others == {o \in Requests : o # e /\ ev[o].pc \in InFlight}
       IN  ev' = [ev EXCEPT ![e] =
                    IF others = {} \/ r.urls = <<>> THEN r
                    ELSE [r EXCEPT !.urls = ev[CHOOSE o \in others : TRUE].urls \o @]]
    /\ UNCHANGED <<variant, env, hb, alive, call>>

\* the handler runs up to its first await or its response
Handle(e) ==
    /\ alive
    /\ ev[e].pc = "Received"
    /\ ev' = [ev EXCEPT ![e] = handleRequest(variant, env, ev[e])]
    /\ UNCHANGED <<variant, env, hb, alive, call>>

\* the instant-submit fetch of request e settles
FetchReturn(e) ==
    /\ alive
    /\ ev[e].pc = "Primary"
    /\ \E r \in FetchOutcomes :
         ev' = [ev EXCEPT ![e] = afterFetch(variant, ev[e], r)]
    /\ UNCHANGED <<variant, env, hb, alive, call>>

\* the body read of the instant-submit response of request e settles
BodyReturn(e) ==
    /\ alive
    /\ ev[e].pc = "PrimaryBody"
    /\ \E b \in BodyOutcomes : ev' = [ev EXCEPT ![e] = afterBody(ev[e], b)]
    /\ UNCHANGED <<variant, env, hb, alive, call>>

\* the handler of request e resumes after its primary call
PrimaryResume(e) ==
    /\ alive
    /\ ev[e].pc = "PrimarySettled"
    /\ ev' = [ev EXCEPT ![e] = afterPrimary(variant, env, ev[e])]
    /\ UNCHANGED <<variant, env, hb, alive, call>>

\* the authorization of the sitemap call of request e settles
AuthorizeReturn(e) ==
    /\ alive
    /\ ev[e].pc = "Secondary"
    /\ \E o \in GscOutcomes : ev' = [ev EXCEPT ![e] = afterAuthorize(ev[e], o)]
    /\ UNCHANGED <<variant, env, hb, alive, call>>

\* the sitemap submission of request e settles
SubmitReturn(e) ==
    /\ alive
    /\ ev[e].pc = "SecondarySubmit"
    /\ \E o \in GscOutcomes : ev' = [ev EXCEPT ![e] = afterSubmit(ev[e], o)]
    /\ UNCHANGED <<variant, env, hb, alive, call>>

\* the handler of request e resumes after its sitemap call
SecondaryResume(e) ==
    /\ alive
    /\ ev[e].pc = "SecondarySettled"
    /\ ev' = [ev EXCEPT ![e] = afterSecondary(variant, ev[e])]
    /\ UNCHANGED <<variant, env, hb, alive, call>>

\* the request completes and the event is discarded
Discard(e) ==
    /\ alive
    /\ ev[e].pc = "Responded"
    /\ ev' = [ev EXCEPT ![e] = IdleEv]
    /\ UNCHANGED <<variant, env, hb, alive, call>>

\* the CronJob fires ("15 8 * * *", Europe/London)
HeartbeatFire ==
    /\ alive
    /\ Len(hb) < MaxFirings
    /\ hb' = Append(hb, cronFire(variant, env))
    /\ alive' = aliveAfter(variant, hb')
    /\ UNCHANGED <<variant, env, ev, call>>

\* the instant-submit fetch of firing j settles
HeartbeatFetchReturn(j) ==
    /\ alive
    /\ hb[j].pc = "Primary"
    /\ \E r \in FetchOutcomes : hb' = [hb EXCEPT ![j] = afterFetch(variant, hb[j], r)]
    /\ alive' = aliveAfter(variant, hb')
    /\ UNCHANGED <<variant, env, ev, call>>

\* the body read of the instant-submit response of firing j settles
HeartbeatBodyReturn(j) ==
    /\ alive
    /\ hb[j].pc = "PrimaryBody"
    /\ \E b \in BodyOutcomes : hb' = [hb EXCEPT ![j] = afterBody(hb[j], b)]
    /\ alive' = aliveAfter(variant, hb')
    /\ UNCHANGED <<variant, env, ev, call>>

\* firing j resumes after its instant-submit call
HeartbeatPrimaryResume(j) ==
    /\ alive
    /\ hb[j].pc = "PrimarySettled"
    /\ hb' = [hb EXCEPT ![j] = cronAfterPrimary(variant, env, hb[j])]
    /\ alive' = aliveAfter(variant, hb')
    /\ UNCHANGED <<variant, env, ev, call>>

\* the authorization of the sitemap call of firing j settles
HeartbeatAuthorizeReturn(j) ==
    /\ alive
    /\ hb[j].pc = "Secondary"
    /\ \E o \in GscOutcomes : hb' = [hb EXCEPT ![j] = afterAuthorize(hb[j], o)]
    /\ alive' = aliveAfter(variant, hb')
    /\ UNCHANGED <<variant, env, ev, call>>

\* the sitemap submission of firing j settles
HeartbeatSubmitReturn(j) ==
    /\ alive
    /\ hb[j].pc = "SecondarySubmit"
    /\ \E o \in GscOutcomes : hb' = [hb EXCEPT ![j] = afterSubmit(hb[j], o)]
    /\ alive' = aliveAfter(variant, hb')
    /\ UNCHANGED <<variant, env, ev, call>>

\* firing j resumes after its sitemap call
HeartbeatSecondaryResume(j) ==
    /\ alive
    /\ hb[j].pc = "SecondarySettled"
    /\ hb' = [hb EXCEPT ![j] = cronAfterSecondary(hb[j])]
    /\ alive' = aliveAfter(variant, hb')
    /\ UNCHANGED <<variant, env, ev, call>>

Next ==
    \/ \E e \in Requests : Receive(e)
    \/ \E e \in Requests : Handle(e)
    \/ \E e \in Requests : FetchReturn(e)
    \/ \E e \in Requests : BodyReturn(e)
    \/ \E e \in Requests : PrimaryResume(e)
    \/ \E e \in Requests : AuthorizeReturn(e)
    \/ \E e \in Requests : SubmitReturn(e)
    \/ \E e \in Requests : SecondaryResume(e)
    \/ \E e \in Requests : Discard(e)
    \/ HeartbeatFire
    \/ \E j \in Firings : HeartbeatFetchReturn(j)
    \/ \E j \in Firings : HeartbeatBodyReturn(j)
    \/ \E j \in Firings : HeartbeatPrimaryResume(j)
    \/ \E j \in Firings : HeartbeatAuthorizeReturn(j)
    \/ \E j \in Firings : HeartbeatSubmitReturn(j)
    \/ \E j \in Firings : HeartbeatSecondaryResume(j)

Spec == Init /\ [][Next]_vars

(* --------------- the verifier and the resolver in isolation ----------- *)

VerifyBodies == {BodyWidget, BodyNull, BodyBroken}

\* the text s with its last byte replaced
MutateByte(s) == SubSeq(s, 1, Len(s) - 1) \o "~"

\* the sender's signature of `body` with one byte replaced: by another ASCII
\* byte (same byte length), or by a byte above 0x7F, which req.get() decodes
\* as a latin1 character and Buffer.from() re-encodes as two UTF-8 bytes
MutatedHeaders(body) ==
    {[len |-> DigestLen, mac |-> <<SenderSecret, body, "ascii">>],
     [len |-> DigestLen + 1, mac |-> <<SenderSecret, body, "high">>]}

\* the sender's signature of a body that differs from `body` in one byte
StaleHeader(body) == createHmacDigest(SenderSecret, MutateByte(body))

VerifyHeaders(body) ==
    Headers(body) \cup MutatedHeaders(body) \cup {StaleHeader(body)}

InitVerify ==
    /\ variant \in Variants
    /\ env \in Environments
    /\ ev = <<IdleEv>>
    /\ hb = NoJobs
    /\ alive = TRUE
    /\ \E body \in VerifyBodies :
         \E hmac \in VerifyHeaders(body) :
            call = [NoCall EXCEPT !.fn = "verify", !.body = body, !.hmac = hmac]

CallVerify ==
    /\ call.fn = "verify"
    /\ ~call.done
    /\ call' = [call EXCEPT !.done = TRUE,
                  !.result = verifyShopifyHmac(variant, env.secret, call.body, call.hmac)]
    /\ UNCHANGED <<variant, env, ev, hb, alive>>

SpecVerify == InitVerify /\ [][CallVerify]_vars

ResolveTopics == Topics \cup {"articles/update", "articles/delete", "unknown/delete", "delete"}

ResolvePayloads ==
    {Payload("object", "widget", Undefined), Payload("object", "a", "b"),
     Payload("object", "all", Undefined), Payload("object", "", Undefined),
     Payload("object", Undefined, Undefined), Payload("object", Undefined, "b"),
     Payload("null", Undefined, Undefined), Payload("number", Undefined, Undefined)}

InitResolve ==
    /\ variant \in Variants
    /\ env = [secret |-> SenderSecret, apiKey |-> "apikey", credential |-> Undefined]
    /\ ev = <<IdleEv>>
    /\ hb = NoJobs
    /\ alive = TRUE
    /\ \E topic \in ResolveTopics, payload \in ResolvePayloads :
         call = [NoCall EXCEPT !.fn = "resolve", !.topic = topic, !.payload = payload]

CallResolve ==
    /\ call.fn = "resolve"
    /\ ~call.done
    /\ call' = [call EXCEPT !.done = TRUE,
                  !.result = buildPublicUrl(variant, call.topic, call.payload)]
    /\ UNCHANGED <<variant, env, ev, hb, alive>>

SpecResolve == InitResolve /\ [][CallResolve]_vars

(* ------------------------------- claims ------------------------------- *)

\* the event passed verification, parsed, and its primary call succeeded
PrimarySucceeded(e) ==
    ev[e].verify = "true" /\ ev[e].parsed /\ ev[e].primary = "ok"

\* C1: once the primary call of a verified, parsed event has succeeded, a
\* failure of the sitemap-resubmission call leaves the outcome Success (200),
\* in every variant.
C1_SecondaryFailureNonFatal ==
    \A e \in Requests :
        (ev[e].pc = "Responded" /\ PrimarySucceeded(e) /\ ev[e].gsc = "fail")
            => ev[e].status = 200

\* the request's signature does not verify: header absent, secret
\* unconfigured, length different from the digest's, or digest mismatch
SignatureInvalid(secret, body, hmac) ==
    \/ hmac = NoHeader
    \/ secret = Undefined
    \/ hmac.len # DigestLen
    \/ hmac.mac # <<secret, body>>

\* C2: an event whose signature verification fails is answered 401 and no
\* later step runs: no parse, no provider call.
C2_InvalidSignatureUnauthenticated ==
    \A e \in Requests :
        (ev[e].pc \notin {"Idle", "Received"}
         /\ SignatureInvalid(env.secret, ev[e].body, ev[e].hmac))
            => /\ ev[e].pc = "Responded"
               /\ ev[e].status = 401
               /\ ~ev[e].parsed
               /\ ev[e].primary = "none"
               /\ ev[e].gsc = "none"

\* C3: the verifier returns false, and does not throw, when the header is
\* absent, the secret is unconfigured, the lengths differ or the digest
\* differs.
C3_VerifierReturnsFalse ==
    (call.fn = "verify" /\ call.done
     /\ SignatureInvalid(env.secret, call.body, call.hmac))
        => (~call.result.throws /\ call.result.value = FALSE)

\* C4: a failed primary (instant-submit) call of a verified, parsed event
\* yields the Error outcome (500), never Success, and the sitemap provider is
\* not invoked for that event.
C4_PrimaryFailureFatal ==
    \A e \in Requests :
        ev[e].primary = "fail"
            => /\ ev[e].pc \in {"PrimarySettled", "Responded"}
               /\ ev[e].pc = "Responded" => ev[e].status = 500
               /\ ev[e].status # 200
               /\ ev[e].gsc = "none"
               /\ ev[e].gscCalls = 0

C4_Witness ==
    \E e \in Requests :
        /\ ev[e].primary = "fail"
        /\ ev[e].verify = "true" /\ ev[e].parsed
        /\ ev[e].topic = "collections/create"
        /\ ev[e].status = 500

\* the explored topics that end in "create" or start with "collections/"
SitemapTopics ==
    {"products/create", "collections/create", "collections/update",
     "collections/delete", "articles/create", "unknown/create"}

\* the explored topics that do neither
NoSitemapTopics == {"products/update", "products/delete", "unknown/update", ""}

\* C5: for an event that reached the secondary-submission decision, the
\* sitemap provider is invoked iff the topic ends in "create" or starts with
\* "collections/": invoked for collections/delete and collections/update,
\* never for products/update.
C5_SecondaryIffCreateOrCollection ==
    \A e \in Requests :
        (ev[e].primary \in {"ok", "skip"} /\ ev[e].pc # "PrimarySettled")
            => /\ ev[e].topic \in SitemapTopics => ev[e].gsc # "none"
               /\ ev[e].topic \in NoSitemapTopics => ev[e].gsc = "none"
               /\ ev[e].topic \in SitemapTopics \cup NoSitemapTopics

C5_Witness ==
    \E e \in Requests :
        /\ ev[e].primary = "ok"
        /\ ev[e].topic = "collections/delete"
        /\ ev[e].gsc # "none"

\* the payload carries no handle
HandleMissing(p) == p.type # "object" \/ p.handle = Undefined

\* C6: the resolver returns none whenever the topic ends with "delete" or
\* the payload's handle is missing, in every variant.
C6_NoUrlForDeleteOrMissingHandle ==
    (call.fn = "resolve" /\ call.done
     /\ (endsWith(call.topic, "delete") \/ HandleMissing(call.payload)))
        => (~call.result.throws /\ call.result.value = Null)

\* C7: the resolver is total: it never raises, for any topic and payload.
C7_ResolverTotal ==
    (call.fn = "resolve" /\ call.done) => ~call.result.throws

\* C8: every batch handed to the instant-submit provider for a webhook
\* event is the resolved URL, if any, followed by the site root and the
\* /collections/all listing, in that order.
C8_BatchHasAnchors ==
    \A e \in Requests :
        ev[e].primary # "none"
            => IF ev[e].url = Null
               THEN ev[e].urls = <<"https://titandepot.co.uk/",
                                   "https://titandepot.co.uk/collections/all">>
               ELSE ev[e].urls = <<ev[e].url, "https://titandepot.co.uk/",
                                   "https://titandepot.co.uk/collections/all">>

C8_Witness ==
    \E e \in Requests :
        /\ ev[e].primary = "pending"
        /\ ev[e].url = "https://titandepot.co.uk/products/widget"
        /\ Len(ev[e].urls) = 3

\* heartbeat firing j has run to its end
FiringEnded(j) == hb[j].pc = "Done"

\* C9 as stated: every heartbeat firing invokes the sitemap provider, also
\* when the instant-submit call of the firing failed.
C9_SitemapAlwaysInvoked ==
    \A j \in Firings : FiringEnded(j) => hb[j].gsc # "none"

\* C9 amended: a heartbeat firing invokes the sitemap provider, whatever the
\* topic of any event, exactly when its instant-submit call did not fail.
C9_SitemapInvokedUnlessPrimaryFailed ==
    \A j \in Firings :
        FiringEnded(j) => (hb[j].gsc # "none" <=> hb[j].primary \in {"ok", "skip"})

C9_Witness ==
    \E j \in Firings :
        /\ FiringEnded(j)
        /\ hb[j].primary = "ok"
        /\ hb[j].gsc \in {"ok", "skip", "fail"}

\* C10: a provider failure during a heartbeat firing is caught inside the
\* firing: the task does not throw, the process stays up, and the scheduler
\* can fire again.
C10_HeartbeatFailureContained ==
    /\ \A j \in Firings : ~hb[j].threw
    /\ alive
    /\ Len(hb) < MaxFirings => ENABLED HeartbeatFire

C10_Witness ==
    /\ \E j, k \in Firings :
          j < k /\ hb[j].failed /\ hb[k].failed /\ hb[k].pc = "Done"
    /\ alive

\* C11: with the service-account credential absent the sitemap provider is a
\* no-op that completes successfully: no webhook event and no heartbeat
\* firing sees it fail.
C11_MissingCredentialSkips ==
    env.credential = Undefined
        => /\ \A e \in Requests : ev[e].gsc \in {"none", "skip"}
           /\ \A j \in Firings : hb[j].gsc \in {"none", "skip"}
           /\ \A e \in Requests :
                (ev[e].pc = "Responded" /\ ev[e].gsc = "skip") => ev[e].status = 200

(* ------------------------ the pipeline under fairness ------------------ *)

\* the handler slots a specification may use
Slots == 1 .. MaxInFlight

\* The event loop runs every handler that is ready, and every provider call
\* returns or fails.
Fairness ==
    \A e \in Slots :
        /\ WF_vars(e \in Requests /\ Handle(e))
        /\ WF_vars(e \in Requests /\ FetchReturn(e))
        /\ WF_vars(e \in Requests /\ BodyReturn(e))
        /\ WF_vars(e \in Requests /\ PrimaryResume(e))
        /\ WF_vars(e \in Requests /\ AuthorizeReturn(e))
        /\ WF_vars(e \in Requests /\ SubmitReturn(e))
        /\ WF_vars(e \in Requests /\ SecondaryResume(e))

\* the first firing of the process.  The specifications below follow the
\* handlers next to one firing; overlapping firings are explored by Spec,
\* whose HeartbeatFire has no such condition.
HeartbeatFireOnce ==
    /\ hb = NoJobs
    /\ HeartbeatFire

\* the steps of one handler slot next to one heartbeat firing
NextLive ==
    \/ \E e \in Requests : Receive(e)
    \/ \E e \in Requests : Handle(e)
    \/ \E e \in Requests : FetchReturn(e)
    \/ \E e \in Requests : BodyReturn(e)
    \/ \E e \in Requests : PrimaryResume(e)
    \/ \E e \in Requests : AuthorizeReturn(e)
    \/ \E e \in Requests : SubmitReturn(e)
    \/ \E e \in Requests : SecondaryResume(e)
    \/ \E e \in Requests : Discard(e)
    \/ HeartbeatFireOnce
    \/ \E j \in Firings : HeartbeatFetchReturn(j)
    \/ \E j \in Firings : HeartbeatBodyReturn(j)
    \/ \E j \in Firings : HeartbeatPrimaryResume(j)
    \/ \E j \in Firings : HeartbeatAuthorizeReturn(j)
    \/ \E j \in Firings : HeartbeatSubmitReturn(j)
    \/ \E j \in Firings : HeartbeatSecondaryResume(j)

SpecLive == Init /\ [][NextLive]_vars /\ Fairness

\* the response state of event e is consistent: at most one response, and a
\* responded event carries exactly one of the three outcomes
OneResponse(e) ==
    /\ ev[e].responses <= 1
    /\ ev[e].pc = "Responded" => (ev[e].responses = 1 /\ ev[e].status \in {200, 401, 500})
    /\ ev[e].pc # "Responded" => (ev[e].responses = 0 /\ ev[e].status = 0)

\* C12: every webhook event gets exactly one response, 200, 401 or 500;
\* every received event eventually reaches Responded (provider calls return
\* or fail), and nothing of its pipeline runs after the response.
C12_ExactlyOneResponse ==
    /\ [](\A e \in Requests : OneResponse(e))
    /\ [][\A e \in Requests :
            ev[e].pc = "Responded" => ev'[e] \in {ev[e], IdleEv}]_vars
    /\ \A e \in Slots :
         (e \in Requests /\ ev[e].pc = "Received")
            ~> (e \in Requests /\ ev[e].pc = "Responded")

C12_Witness ==
    \E e \in Requests :
        /\ ev[e].pc = "Responded"
        /\ ev[e].responses = 1
        /\ ev[e].status = 200
        /\ ev[e].gsc = "ok"

\* C13: a verified event whose body is not valid JSON is answered 500 at
\* once: no URL is resolved, no batch is built and no provider is invoked.
C13_ParseFailureStops ==
    \A e \in Requests :
        (ev[e].verify = "true" /\ ev[e].body = "{\"handle\":")
            => /\ ev[e].pc = "Responded"
               /\ ev[e].status = 500
               /\ ~ev[e].parsed
               /\ ~ev[e].resolved
               /\ ev[e].urls = <<>>
               /\ ev[e].primary = "none"
               /\ ev[e].gsc = "none"

C13_Witness ==
    \E e \in Requests :
        /\ ev[e].verify = "true"
        /\ ev[e].body = "{\"handle\":"
        /\ ev[e].topic = "collections/create"
        /\ ev[e].status = 500

\* C14: with the secret configured the verifier returns true for the
\* signature of the exact body, and returns false when one byte of the body
\* or of the signature is changed.
C14_VerifierAcceptsExactlyTheSignature ==
    (call.fn = "verify" /\ call.done /\ env.secret = SenderSecret)
        => /\ call.hmac = createHmacDigest(env.secret, call.body)
                => call.result = Return(TRUE)
           /\ call.hmac \in MutatedHeaders(call.body) \cup {StaleHeader(call.body)}
                => call.result = Return(FALSE)

\* the resource kind of a topic, read from its prefix
TopicKind(topic) ==
    CASE Len(topic) >= 9 /\ SubSeq(topic, 1, 9) = "products/" -> "product"
      [] Len(topic) >= 12 /\ SubSeq(topic, 1, 12) = "collections/" -> "collection"
      [] Len(topic) >= 9 /\ SubSeq(topic, 1, 9) = "articles/" -> "article"
      [] OTHER -> "other"

\* the URL the resolver is specified to return for a non-deletion topic and
\* a payload with a handle
ExpectedUrl(topic, p) ==
    CASE TopicKind(topic) = "product" ->
            "https://titandepot.co.uk/products/" \o p.handle
      [] TopicKind(topic) = "collection" ->
            "https://titandepot.co.uk/collections/" \o p.handle
      [] TopicKind(topic) = "article" ->
            "https://titandepot.co.uk/blogs/"
                \o (IF p.blogHandle = Undefined THEN "news" ELSE p.blogHandle)
                \o "/" \o p.handle
      [] OTHER -> Null

\* the payload is an object with a non-empty handle
HandlePresent(p) == p.type = "object" /\ p.handle # Undefined /\ p.handle # ""

\* C15: for a non-deletion topic and a payload with a handle the resolver
\* returns host/products/handle, host/collections/handle or
\* host/blogs/(blog.handle or "news")/handle by resource kind; for any other
\* resource kind it returns none.
C15_ResolvedUrlByKind ==
    (call.fn = "resolve" /\ call.done)
        => /\ (~endsWith(call.topic, "delete") /\ HandlePresent(call.payload))
                => call.result = Return(ExpectedUrl(call.topic, call.payload))
           /\ TopicKind(call.topic) = "other" => call.result = Return(Null)

C15_Witness ==
    /\ call.fn = "resolve"
    /\ call.done
    /\ call.topic = "articles/create"
    /\ call.payload = Payload("object", "a", "b")
    /\ call.result.value = "https://titandepot.co.uk/blogs/b/a"

\* C16: the batch handed to the instant-submit provider never holds the same
\* URL twice, for any topic and payload.
C16_BatchDistinct ==
    \A e \in Requests :
        ev[e].primary # "none"
            => \A i, j \in DOMAIN ev[e].urls :
                  i # j => ev[e].urls[i] # ev[e].urls[j]

\* C17: within one event the provider calls are sequential: the sitemap call
\* is started only after the instant-submit call of the event has returned
\* normally, and the two are never in flight together.
C17_ProvidersSequential ==
    \A e \in Requests :
        /\ ev[e].gsc # "none" => ev[e].primary \in {"ok", "skip"}
        /\ ev[e].pc \in {"Secondary", "SecondarySubmit", "SecondarySettled"}
              => ev[e].primary \in {"ok", "skip"}
        /\ ev[e].pc \in {"Primary", "PrimaryBody", "PrimarySettled"}
              => (ev[e].gsc = "none" /\ ev[e].gscCalls = 0)
        /\ ~(ev[e].primary = "pending" /\ ev[e].gsc = "pending")

C17_Witness ==
    \E e \in Requests :
        /\ ev[e].pc = "Secondary"
        /\ ev[e].primary = "ok"
        /\ ev[e].gsc = "pending"

\* C18: no retry: for each webhook event and each heartbeat firing, each
\* provider is invoked at most once, also after a failure.
C18_NoRetry ==
    /\ \A e \in Requests : ev[e].primaryCalls <= 1 /\ ev[e].gscCalls <= 1
    /\ \A j \in Firings : hb[j].primaryCalls <= 1 /\ hb[j].gscCalls <= 1

C18_Witness ==
    /\ \E e \in Requests :
          /\ ev[e].pc = "Responded"
          /\ ev[e].primary = "fail"
          /\ ev[e].primaryCalls = 1
    /\ \E j \in Firings :
          /\ hb[j].pc = "Done"
          /\ hb[j].gsc = "fail"
          /\ hb[j].gscCalls = 1

(* ----------------------- concurrent webhook requests ------------------- *)

ConcTopics == {"products/update", "collections/create"}

ConcBodies == {BodyWidget}

ConcHeaders(body) == {NoHeader, createHmacDigest(SenderSecret, body)}

InitConc ==
    /\ variant \in Variants
    /\ env \in Environments
    /\ ev = [e \in Slots |-> IdleEv]
    /\ hb = NoJobs
    /\ alive = TRUE
    /\ call = NoCall

\* express delivers a request while other requests may be in flight
ReceiveConc(e) ==
    /\ alive
    /\ ev[e].pc = "Idle"
    /\ \E topic \in ConcTopics, body \in ConcBodies :
         \E hmac \in ConcHeaders(body) :
            ev' = [ev EXCEPT ![e] = [IdleEv EXCEPT !.pc = "Received",
                                       !.topic = topic, !.body = body,
                                       !.hmac = hmac]]
    /\ UNCHANGED <<variant, env, hb, alive, call>>

NextConc ==
    \/ \E e \in Requests : ReceiveConc(e)
    \/ \E e \in Requests : Handle(e)
    \/ \E e \in Requests : FetchReturn(e)
    \/ \E e \in Requests : BodyReturn(e)
    \/ \E e \in Requests : PrimaryResume(e)
    \/ \E e \in Requests : AuthorizeReturn(e)
    \/ \E e \in Requests : SubmitReturn(e)
    \/ \E e \in Requests : SecondaryResume(e)
    \/ \E e \in Requests : Discard(e)
    \/ HeartbeatFireOnce
    \/ \E j \in Firings : HeartbeatFetchReturn(j)
    \/ \E j \in Firings : HeartbeatBodyReturn(j)
    \/ \E j \in Firings : HeartbeatPrimaryResume(j)
    \/ \E j \in Firings : HeartbeatAuthorizeReturn(j)
    \/ \E j \in Firings : HeartbeatSubmitReturn(j)
    \/ \E j \in Firings : HeartbeatSecondaryResume(j)

SpecConc == InitConc /\ [][NextConc]_vars

\* the final record of event e when its request is processed alone, with the
\* provider outcomes that e observed
Alone(v, environ, e) ==
    LET r0 == handleRequest(v, environ,
                            [IdleEv EXCEPT !.pc = "Received", !.topic = e.topic,
                                           !.body = e.body, !.hmac = e.hmac])
        r1 == IF r0.pc = "Primary"
              THEN afterFetch(v, r0, IF e.primary = "ok" THEN "2xx" ELSE "non2xx")
              ELSE r0
        r2 == IF r1.pc = "PrimaryBody" THEN afterBody(r1, "read") ELSE r1
        r3 == IF r2.pc = "PrimarySettled" THEN afterPrimary(v, environ, r2) ELSE r2
        r4 == IF r3.pc = "Secondary" THEN afterAuthorize(r3, e.gsc) ELSE r3
        r5 == IF r4.pc = "SecondarySubmit" THEN afterSubmit(r4, "ok") ELSE r4
    IN  IF r5.pc = "SecondarySettled" THEN afterSecondary(v, r5) ELSE r5

\* C19: webhook events and heartbeat firings do not interact: under every
\* interleaving the configuration is unchanged, each event's outcome and
\* batch are those of the event processed alone with the same provider
\* outcomes, and the heartbeat batch is the static one.
C19_NoInterference ==
    /\ [][variant' = variant /\ env' = env]_vars
    /\ [](\A e \in Requests :
            ev[e].pc = "Responded"
               => /\ ev[e].status = Alone(variant, env, ev[e]).status
                  /\ ev[e].urls = Alone(variant, env, ev[e]).urls)
    /\ [](\A j \in Firings :
            hb[j].urls = <<"https://titandepot.co.uk/",
                           "https://titandepot.co.uk/sitemap.xml">>)

C19_Witness ==
    \E a, b \in Requests :
        /\ a # b
        /\ ev[a].pc = "Secondary"
        /\ ev[b].pc = "Responded"
        /\ ev[b].status = 200
        /\ Len(ev[b].urls) = 3
        /\ \E j \in Firings : hb[j].pc = "Primary"

\* C20 as stated: a 200 response implies that the instant-submit provider
\* was called with the event's batch and answered 2xx, also when the API key
\* is not configured.
C20_SuccessImpliesSubmitted ==
    \A e \in Requests : ev[e].status = 200 => ev[e].primary = "ok"

\* C20 amended: a 200 response implies that the instant-submit provider was
\* called with the event's batch and answered 2xx, except in the Bing variant
\* without BING_API_KEY, where the submission is skipped with a warning.
C20_SuccessImpliesSubmittedOrSkipped ==
    \A e \in Requests :
        ev[e].status = 200
            => /\ ev[e].primaryCalls = 1
               /\ Len(ev[e].urls) >= 2
               /\ \/ ev[e].primary = "ok"
                  \/ /\ ev[e].primary = "skip"
                     /\ variant = "bing"
                     /\ env.apiKey = Undefined

C20_Witness ==
    \E e \in Requests :
        /\ ev[e].status = 200
        /\ ev[e].primary = "skip"
        /\ variant = "bing"
        /\ env.apiKey = Undefined

====
